---- MODULE Spec2Model ----
(***************************************************************************)
(* Model of the tiered chart-data cache of api_server.py: the OHLC store   *)
(* (durable candle snapshot, incremental fetch, merge/dedupe, two-source   *)
(* full fetch), the derived dataset builder and the memory / parquet /     *)
(* rebuild cache manager, run by concurrent request threads.               *)
(*                                                                         *)
(* Encoding of Python values:                                              *)
(*   - a candle is a record [time, open, high, low, close, volume];        *)
(*   - a list-or-None of candles that the code only tests for truthiness   *)
(*     (cached, ohlc) is a sequence, <<>> standing for both None and [];   *)
(*   - a timestamp-or-None that the code only tests for truthiness         *)
(*     (BTC_CACHE_LAST_UPDATE, last_ts) is a number, 0 standing for None;  *)
(*   - a dataset is a record of equally long columns, None is the record   *)
(*     None; a column cell is a number, NONE (Python None) or NAN;         *)
(*   - a number is the exact fraction <<n, d>> in lowest terms, d > 0: the *)
(*     indicator arithmetic is that of the reals, without float rounding.  *)
(* Dates are UTC days: Date(ts) is the '%Y-%m-%d' value of a timestamp on  *)
(* a server whose local time is UTC.                                       *)
(***************************************************************************)
EXTENDS Integers, Sequences, FiniteSets, TLC

VARIABLES
    SERVERLESS_MODE,        \* api_server.py:797, fixed at process start
    POLYGON_API_KEY,        \* config.py:68, TRUE iff a key is configured
    now,                    \* wall clock, epoch seconds
    ticks,                  \* number of clock advances so far
    MEMORY_CACHE,           \* [full_data, last_update]
    CACHE_LOCK,             \* 0 = free, else the thread holding it
    BTC_CACHE_LAST_UPDATE,  \* 0 = None
    btc_file,               \* BTC_CACHE_FILE: <<>> = absent
    full_file,              \* BTC_FULL_CACHE_FILE: None = absent
    pc,                     \* per thread: position in the request
    loc,                    \* per thread: local variables of the running call
    hist,                   \* per thread: what the running call has done so far
    prev,                   \* the last get_full_chart_data call that returned
    started,                \* number of requests started so far
    faults,                 \* number of failed file reads and writes so far
    m,                      \* inputs and results of the function checks
    written                 \* which write put each field of MEMORY_CACHE

vars == << SERVERLESS_MODE, POLYGON_API_KEY, now, ticks, MEMORY_CACHE, CACHE_LOCK,
           BTC_CACHE_LAST_UPDATE, btc_file, full_file, pc, loc, hist, prev,
           started, faults, m, written >>

-----------------------------------------------------------------------------
(* Bounds of the model *)

MaxTicks == 1
MaxRequests == 2
MaxFaults == 1
MaxBatchLen == 2
MergeTimes == 3
ShortDays == 2
MaxSeriesLen == 4
MaxPeriod == 3
HistoryDays == 50       \* candles of a full fetch (the 365-day lookback)
FlatPrice == 100

(* Program constants *)

FRESH_SECONDS == 300
DAY_SECONDS == 86400
MIN_CANDLES == 50
SMA_PERIOD == 50
SMA_LONG == 200
PERIOD_20 == 20
PERIOD_14 == 14
BB_STD_DEV == 2
MACD_FAST == 12
MACD_SLOW == 26
MACD_SIGNAL == 9
STOCH_D_PERIOD == 3
TENKAN == 9
KIJUN == 26
SENKOU_B == 52

(* Cell markers *)

NONE == <<0, 0>>
NAN == <<1, 0>>

None == [none |-> TRUE]

Threads == {1, 2}

-----------------------------------------------------------------------------
(* Candle series *)

\* A candle of a day on which the price stayed at FlatPrice, with volume v
Candle(t, v) ==
    [time |-> t, open |-> FlatPrice, high |-> FlatPrice, low |-> FlatPrice,
     close |-> FlatPrice, volume |-> v]

Times(s) == {s[i].time : i \in DOMAIN s}

MaxOf(S) == CHOOSE x \in S : \A y \in S : y <= x

MinOf(S) == CHOOSE x \in S : \A y \in S : x <= y

\* CandleSeries of the data model: ascending by time, no duplicate time
IsCandleSeries(s) == \A i, j \in DOMAIN s : i < j => s[i].time < s[j].time

\* merged = {item['time']: item for item in old_data}; then every item of
\* new_data is stored under its time: the last item stored under a key wins
MergedDictOldWins(old_data, new_data) ==
    LET all == new_data \o old_data
    IN  [t \in Times(all) |-> all[MaxOf({i \in DOMAIN all : all[i].time = t})]]

MergedDict(old_data, new_data) ==
    LET all == old_data \o new_data
    IN  [t \in Times(all) |-> all[MaxOf({i \in DOMAIN all : all[i].time = t})]]

\* sorted(merged.values(), key=lambda x: x['time'])
RECURSIVE SortedValues(_)
SortedValues(d) ==
    IF DOMAIN d = {} THEN <<>>
    ELSE LET t == MinOf(DOMAIN d)
         IN  <<d[t]>> \o SortedValues([k \in DOMAIN d \ {t} |-> d[k]])

merge_and_dedupe_ohlc(old_data, new_data) ==
    IF old_data = <<>> THEN new_data
    ELSE IF new_data = <<>> THEN old_data
    ELSE SortedValues(MergedDict(old_data, new_data))

-----------------------------------------------------------------------------
(* Numbers.  A float is modelled by the exact fraction <<n, d>>, d > 0.    *)

RECURSIVE GCD(_, _)
GCD(a, b) == IF b = 0 THEN a ELSE GCD(b, a % b)

Abs(x) == IF x < 0 THEN -x ELSE x

\* n / d in lowest terms, d # 0
Frac(n, d) ==
    LET g == GCD(Abs(n), Abs(d))
        s == IF d < 0 THEN -1 ELSE 1
    IN  << (s * n) \div g, (s * d) \div g >>

Num(x) == <<x, 1>>

IsNumber(c) == c[2] > 0

\* Float arithmetic: NaN in, NaN out
Add(a, b) ==
    IF a = NAN \/ b = NAN THEN NAN
    ELSE Frac(a[1] * b[2] + b[1] * a[2], a[2] * b[2])

Sub(a, b) ==
    IF a = NAN \/ b = NAN THEN NAN
    ELSE Frac(a[1] * b[2] - b[1] * a[2], a[2] * b[2])

Mul(a, b) ==
    IF a = NAN \/ b = NAN THEN NAN
    ELSE Frac(a[1] * b[1], a[2] * b[2])

\* a / b, b # 0
Div(a, b) ==
    IF a = NAN \/ b = NAN THEN NAN
    ELSE Frac(a[1] * b[2], a[2] * b[1])

\* a < b; a comparison with NaN is false
Less(a, b) == a # NAN /\ b # NAN /\ a[1] * b[2] < b[1] * a[2]

AbsOf(a) == IF a = NAN THEN NAN ELSE << Abs(a[1]), a[2] >>

\* max(...) and min(...) of a non-empty collection of numbers
Highest(S) == CHOOSE x \in S : \A y \in S : ~Less(x, y)

Lowest(S) == CHOOSE x \in S : \A y \in S : ~Less(y, x)

\* The largest r with r * r <= x, searched between lo (r >= lo) and hi (r < hi)
RECURSIVE ISqrt(_, _, _)
ISqrt(x, lo, hi) ==
    IF hi - lo <= 1 THEN lo
    ELSE LET mid == (lo + hi) \div 2
         IN  IF mid <= x \div mid THEN ISqrt(x, mid, hi) ELSE ISqrt(x, lo, mid)

\* The square root of a number that is not negative: exact when the fraction
\* is a square, rounded down to a multiple of 1/d when it is not
Sqrt(a) == Frac(ISqrt(a[1] * a[2], 0, a[1] * a[2] + 1), a[2])

-----------------------------------------------------------------------------
(* Lists *)

\* A list comprehension is evaluated when it is written
List(xs) == SubSeq(xs, 1, Len(xs))

\* [x] * n
RepZeros(n, x) == [i \in 1..n |-> Num(0)]

Rep(n, x) == [i \in 1..n |-> x]

\* xs[a:b], 0 <= a
Slice(xs, a, b) == SubSeq(xs, a + 1, IF b < Len(xs) THEN b ELSE Len(xs))

\* The elements at positions lo..hi, as a set
Window(xs, lo, hi) == { xs[k] : k \in lo..hi }

\* sum(xs[lo..hi]): the sum of the two halves
RECURSIVE SumRange(_, _, _)
SumRange(xs, lo, hi) ==
    IF lo > hi THEN Num(0)
    ELSE IF lo = hi THEN Add(Num(0), xs[lo])
    ELSE LET mid == (lo + hi) \div 2
         IN  Add(SumRange(xs, lo, mid), SumRange(xs, mid + 1, hi))

\* for i in range(lo, hi + 1): out.append(step(out[-1], i)), started from the
\* value s: the list of the values appended.  The first half of the
\* iterations runs before the second
RECURSIVE Loop(_, _, _, _)
Loop(step(_, _), s, lo, hi) ==
    IF lo > hi THEN <<>>
    ELSE IF lo = hi THEN << step(s, lo) >>
    ELSE LET mid == (lo + hi) \div 2
             left == Loop(step, s, lo, mid)
         IN  left \o Loop(step, left[Len(left)], mid + 1, hi)

\* np.array(prices, dtype=np.float64): a None element becomes NaN
np_array(prices) ==
    List([i \in 1..Len(prices) |-> IF prices[i] = NONE THEN NAN ELSE prices[i]])

\* np.insert(np.cumsum(arr), 0, 0): the running sums, a zero in front
cumsum(arr) ==
    LET step(last, i) == Add(last, arr[i])
    IN  << Num(0) >> \o Loop(step, Num(0), 1, Len(arr))

\* [None if np.isnan(x) else x for x in values]
NanToNone(values) ==
    [i \in 1..Len(values) |-> IF values[i] = NAN THEN NONE ELSE values[i]]

-----------------------------------------------------------------------------
(* Technical indicators.  Python index i is index i + 1 here.              *)

\* calculate_sma: [None] * len when shorter than the period; else period - 1
\* None cells, then the differences of the running sums over the period
calculate_sma(prices, period) ==
    IF Len(prices) < period THEN Rep(Len(prices), NONE)
    ELSE LET sums == cumsum(np_array(prices))
         IN  [i \in 1..Len(prices) |->
                IF i < period THEN NONE
                ELSE Div(Sub(sums[i + 1], sums[i + 1 - period]), Num(period))]

\* calculate_ema: NaN before the seed, the mean of the first period values
\* at the seed, then ema[i] = (arr[i] - ema[i-1]) * multiplier + ema[i-1];
\* NaN cells are returned as None
calculate_ema(prices, period) ==
    IF Len(prices) < period THEN Rep(Len(prices), NONE)
    ELSE LET arr == np_array(prices)
             multiplier == Frac(2, period + 1)
             seed == Div(SumRange(arr, 1, period), Num(period))
             step(last, i) == Add(Mul(Sub(arr[i], last), multiplier), last)
         IN  NanToNone(Rep(period - 1, NAN) \o << seed >>
                       \o Loop(step, seed, period + 1, Len(arr)))

\* The averages of calculate_rsi over the changes xs: zero before index
\* period - 1, the simple mean of the first period changes there, and after
\* it avg[i] = (avg[i-1] * (period - 1) + xs[i]) / period
wilder_average(xs, period) ==
    LET first == Div(SumRange(xs, 1, period), Num(period))
        step(last, i) == Div(Add(Mul(last, Num(period - 1)), xs[i]), Num(period))
    IN  Rep(period - 1, Num(0)) \o << first >> \o Loop(step, first, period + 1, Len(xs))

rsi_valueNoGuard(avg_gain, avg_loss) ==
    LET rs == IF avg_loss # Num(0) THEN Div(avg_gain, avg_loss) ELSE Num(0)
    IN  Sub(Num(100), Div(Num(100), Add(Num(1), rs)))

\* rsi_values of calculate_rsi at one index: rs is avg_gain / avg_loss where
\* avg_loss != 0 and 0 elsewhere; 100 - 100 / (1 + rs), and 100 where
\* avg_loss == 0
rsi_value(avg_gain, avg_loss) ==
    LET rs == IF avg_loss # Num(0) THEN Div(avg_gain, avg_loss) ELSE Num(0)
    IN  IF avg_loss = Num(0) THEN Num(100)
        ELSE Sub(Num(100), Div(Num(100), Add(Num(1), rs)))

calculate_rsi(prices, period) ==
    IF Len(prices) < period + 1 THEN Rep(Len(prices), NONE)
    ELSE LET arr == np_array(prices)
             deltas == [k \in 1..(Len(arr) - 1) |-> Sub(arr[k + 1], arr[k])]
             gains == [k \in DOMAIN deltas |->
                          IF Less(Num(0), deltas[k]) THEN deltas[k] ELSE Num(0)]
             losses == [k \in DOMAIN deltas |->
                          IF Less(deltas[k], Num(0)) THEN Sub(Num(0), deltas[k]) ELSE Num(0)]
             avg_gain == wilder_average(gains, period)
             avg_loss == wilder_average(losses, period)
         IN  [i \in 1..Len(prices) |->
                IF i <= period THEN NONE
                ELSE rsi_value(avg_gain[i - 1], avg_loss[i - 1])]

\* macd_line of calculate_macd: fast EMA - slow EMA where both are defined
macd_line_of(ema_fast, ema_slow) ==
    List([i \in 1..Len(ema_fast) |->
             IF ema_fast[i] = NONE \/ ema_slow[i] = NONE THEN NONE
             ELSE Sub(ema_fast[i], ema_slow[i])])

\* histogram of calculate_macd: macd - signal where both are defined
histogram_of(macd_line, signal_line) ==
    << macd_line, signal_line,
       [i \in 1..Len(macd_line) |->
           IF macd_line[i] = NONE \/ signal_line[i] = NONE THEN NONE
           ELSE Sub(macd_line[i], signal_line[i])] >>

\* The signal line is the EMA of macd_line[slow-1:] behind slow - 1 None
\* cells; fewer than signal defined MACD values give no signal and no histogram
signal_of(macd_line, slow, signal) ==
    IF Cardinality({ i \in 1..Len(macd_line) : macd_line[i] # NONE }) < signal
    THEN << macd_line, Rep(Len(macd_line), NONE), Rep(Len(macd_line), NONE) >>
    ELSE histogram_of(macd_line,
             List(Rep(slow - 1, NONE)
                  \o calculate_ema(Slice(macd_line, slow - 1, Len(macd_line)), signal)))

\* calculate_macd: the three lists macd_line, signal_line, histogram
calculate_macd(prices, fast, slow, signal) ==
    IF Len(prices) < slow
    THEN << Rep(Len(prices), NONE), Rep(Len(prices), NONE), Rep(Len(prices), NONE) >>
    ELSE signal_of(macd_line_of(calculate_ema(prices, fast), calculate_ema(prices, slow)),
                   slow, signal)

\* np.std of the cells lo..hi: the root of the mean squared distance from
\* the mean
np_std(xs, lo, hi) ==
    LET k == Num(hi - lo + 1)
        mean == Div(SumRange(xs, lo, hi), k)
        sq == [i \in 1..Len(xs) |-> Mul(Sub(xs[i], mean), Sub(xs[i], mean))]
    IN  Sqrt(Div(SumRange(sq, lo, hi), k))

\* calculate_bollinger_bands: the three lists upper, middle, lower
calculate_bollinger_bands(prices, period, std_dev) ==
    LET n == Len(prices)
        middle == calculate_sma(prices, period)
        band(i, sign) ==
            IF i < period THEN NONE
            ELSE Add(middle[i], Mul(Num(sign * std_dev), np_std(prices, i - period + 1, i)))
    IN  IF n < period THEN << Rep(n, NONE), Rep(n, NONE), Rep(n, NONE) >>
        ELSE << [i \in 1..n |-> band(i, 1)], middle, [i \in 1..n |-> band(i, -1)] >>

\* The true range of calculate_atr and calculate_adx: high - low for the
\* first candle, then max(high - low, |high - prev close|, |low - prev close|)
true_range(highs, lows, closes) ==
    List([i \in 1..Len(closes) |->
        IF i = 1 THEN Sub(highs[1], lows[1])
        ELSE Highest({ Sub(highs[i], lows[i]),
                       AbsOf(Sub(highs[i], closes[i - 1])),
                       AbsOf(Sub(lows[i], closes[i - 1])) })])

\* calculate_atr: the mean of the first period true ranges at index
\* period - 1, then atr.append((atr[-1] * (period - 1) + tr[i]) / period)
calculate_atr(highs, lows, closes, period) ==
    IF Len(closes) < period + 1 THEN Rep(Len(closes), NONE)
    ELSE LET tr == true_range(highs, lows, closes)
             first == Div(SumRange(tr, 1, period), Num(period))
             step(last, i) == Div(Add(Mul(last, Num(period - 1)), tr[i]), Num(period))
         IN  Rep(period - 1, NONE) \o << first >> \o Loop(step, first, period + 1, Len(tr))

\* (h + l + c) / 3 for h, l, c in zip(highs, lows, closes)
typical_prices(highs, lows, closes) ==
    List([i \in 1..Len(closes) |-> Div(Add(Add(highs[i], lows[i]), closes[i]), Num(3))])

\* calculate_vwap: None while the cumulative volume is not positive
calculate_vwap(highs, lows, closes, volumes) ==
    LET tp == typical_prices(highs, lows, closes)
        cumulative_tpv == cumsum([i \in 1..Len(closes) |-> Mul(tp[i], volumes[i])])
        cumulative_volume == cumsum(volumes)
    IN  [i \in 1..Len(closes) |->
            IF Less(Num(0), cumulative_volume[i + 1])
            THEN Div(cumulative_tpv[i + 1], cumulative_volume[i + 1])
            ELSE NONE]

\* calculate_stochastic: the two lists k_values, d_values; d_values is
\* calculate_sma of k_values, its leading None cells included
calculate_stochastic(highs, lows, closes, k_period, d_period) ==
    LET n == Len(closes)
        k_values ==
            [i \in 1..n |->
                IF i < k_period THEN NONE
                ELSE LET highest_high == Highest(Window(highs, i - k_period + 1, i))
                         lowest_low == Lowest(Window(lows, i - k_period + 1, i))
                     IN  IF Sub(highest_high, lowest_low) = Num(0) THEN Num(50)
                         ELSE Div(Mul(Num(100), Sub(closes[i], lowest_low)),
                                  Sub(highest_high, lowest_low))]
    IN  IF n < k_period THEN << Rep(n, NONE), Rep(n, NONE) >>
        ELSE << k_values, calculate_sma(k_values, d_period) >>

\* calculate_obv: [0] * len for fewer than two candles; else volumes[0], and
\* each later cell adds the volume on a higher close, subtracts it on a lower
\* close and repeats the cell before on an equal close
calculate_obv(closes, volumes) ==
    LET step(last, i) ==
            IF Less(closes[i - 1], closes[i]) THEN Add(last, volumes[i])
            ELSE IF Less(closes[i], closes[i - 1]) THEN Sub(last, volumes[i])
            ELSE last
    IN  IF Len(closes) < 2 THEN Rep(Len(closes), Num(0))
        ELSE << volumes[1] >> \o Loop(step, volumes[1], 2, Len(closes))

calculate_mfi(highs, lows, closes, volumes, period) ==
    LET n == Len(closes)
        tp == typical_prices(highs, lows, closes)
        raw_money_flow == List([j \in 1..n |-> Mul(tp[j], volumes[j])])
        pos == List([j \in 1..n |->
                   IF j > 1 /\ Less(tp[j - 1], tp[j]) THEN raw_money_flow[j] ELSE Num(0)])
        neg == List([j \in 1..n |->
                   IF j > 1 /\ Less(tp[j], tp[j - 1]) THEN raw_money_flow[j] ELSE Num(0)])
    IN  IF n < period + 1 THEN Rep(n, NONE)
        ELSE [i \in 1..n |->
                IF i <= period THEN NONE
                ELSE LET pos_flow == SumRange(pos, i - period + 1, i)
                         neg_flow == SumRange(neg, i - period + 1, i)
                     IN  IF neg_flow = Num(0) THEN Num(100)
                         ELSE Sub(Num(100),
                                  Div(Num(100), Add(Num(1), Div(pos_flow, neg_flow))))]

calculate_cci(highs, lows, closes, period) ==
    LET n == Len(closes)
        tp == typical_prices(highs, lows, closes)
    IN  IF n < period THEN Rep(n, NONE)
        ELSE [i \in 1..n |->
                IF i < period THEN NONE
                ELSE LET sma_tp == Div(SumRange(tp, i - period + 1, i), Num(period))
                         dev == [j \in 1..n |-> AbsOf(Sub(tp[j], sma_tp))]
                         mean_dev == Div(SumRange(dev, i - period + 1, i), Num(period))
                     IN  IF mean_dev = Num(0) THEN Num(0)
                         ELSE Div(Sub(tp[i], sma_tp), Mul(Frac(15, 1000), mean_dev))]

calculate_williams_r(highs, lows, closes, period) ==
    LET n == Len(closes)
    IN  IF n < period THEN Rep(n, NONE)
        ELSE [i \in 1..n |->
                IF i < period THEN NONE
                ELSE LET highest_high == Highest(Window(highs, i - period + 1, i))
                         lowest_low == Lowest(Window(lows, i - period + 1, i))
                     IN  IF Sub(highest_high, lowest_low) = Num(0) THEN Num(-50)
                         ELSE Div(Mul(Num(-100), Sub(highest_high, closes[i])),
                                  Sub(highest_high, lowest_low))]

\* x or 0
OrZero(x) == IF x = NONE THEN Num(0) ELSE x

\* plus_dm of calculate_adx: the rise of the high where it is positive and
\* larger than the fall of the low, else 0
plus_dm_of(highs, lows) ==
    List([i \in 1..Len(highs) |->
             IF i > 1 /\ Less(Sub(lows[i - 1], lows[i]), Sub(highs[i], highs[i - 1]))
                      /\ Less(Num(0), Sub(highs[i], highs[i - 1]))
             THEN Sub(highs[i], highs[i - 1]) ELSE Num(0)])

\* minus_dm of calculate_adx: the fall of the low where it is positive and
\* larger than the rise of the high, else 0
minus_dm_of(highs, lows) ==
    List([i \in 1..Len(highs) |->
             IF i > 1 /\ Less(Sub(highs[i], highs[i - 1]), Sub(lows[i - 1], lows[i]))
                      /\ Less(Num(0), Sub(lows[i - 1], lows[i]))
             THEN Sub(lows[i - 1], lows[i]) ELSE Num(0)])

\* plus_di and minus_di of calculate_adx: 100 * (smoothed dm or 0) / atr, None
\* where atr is None or 0
directional_index(smooth_dm, atr) ==
    List([i \in 1..Len(atr) |->
             IF atr[i] = NONE \/ atr[i] = Num(0) THEN NONE
             ELSE Div(Mul(Num(100), OrZero(smooth_dm[i])), atr[i])])

\* dx of calculate_adx: 100 * |pdi - mdi| / (pdi + mdi), 0 where the sum is 0,
\* None where atr is None or 0; in [d if d is not None else 0 for d in dx] the
\* None cells are 0
dx_or_zero(plus_di, minus_di) ==
    List([i \in 1..Len(plus_di) |->
             IF plus_di[i] = NONE THEN Num(0)
             ELSE IF Add(plus_di[i], minus_di[i]) = Num(0) THEN Num(0)
             ELSE Div(Mul(Num(100), AbsOf(Sub(plus_di[i], minus_di[i]))),
                      Add(plus_di[i], minus_di[i]))])

\* adx is the EMA of dx
adx_of(plus_di, minus_di, period) ==
    << calculate_ema(dx_or_zero(plus_di, minus_di), period), plus_di, minus_di >>

\* The two indexes are taken over the same smoothed true range
indexes_of(atr, smooth_plus_dm, smooth_minus_dm, period) ==
    adx_of(directional_index(smooth_plus_dm, atr),
           directional_index(smooth_minus_dm, atr), period)

\* calculate_adx: the three lists adx, plus_di, minus_di
calculate_adx(highs, lows, closes, period) ==
    IF Len(closes) < period * 2
    THEN << Rep(Len(closes), NONE), Rep(Len(closes), NONE), Rep(Len(closes), NONE) >>
    ELSE indexes_of(List(calculate_ema(true_range(highs, lows, closes), period)),
                    calculate_ema(plus_dm_of(highs, lows), period),
                    calculate_ema(minus_dm_of(highs, lows), period),
                    period)

\* period_high_low_avg of calculate_ichimoku
period_high_low_avg(highs, lows, period, i) ==
    IF i < period THEN NONE
    ELSE Div(Add(Highest(Window(highs, i - period + 1, i)),
                 Lowest(Window(lows, i - period + 1, i))), Num(2))

IsDefined(x) == x # NONE

\* xs[:n]
CutNever(xs, n) == xs

Cut(xs, n) == Slice(xs, 0, n)

\* calculate_ichimoku: senkou_a is kijun None cells followed by the defined
\* tenkan/kijun means, one after the other, cut to n cells
calculate_ichimoku(highs, lows, closes, tenkan, kijun, senkou_b) ==
    LET n == Len(closes)
        tenkan_sen == [i \in 1..n |-> period_high_low_avg(highs, lows, tenkan, i)]
        kijun_sen == [i \in 1..n |-> period_high_low_avg(highs, lows, kijun, i)]
        means == [i \in 1..n |->
                     IF tenkan_sen[i] # NONE /\ kijun_sen[i] # NONE
                     THEN Div(Add(tenkan_sen[i], kijun_sen[i]), Num(2))
                     ELSE NONE]
        senkou_a == Rep(kijun, NONE) \o SelectSeq(means, IsDefined)
        senkou_b_vals == Rep(kijun, NONE)
                         \o [i \in 1..n |-> period_high_low_avg(highs, lows, senkou_b, i)]
        chikou_span == Slice(closes, kijun, n) \o Rep(kijun, NONE)
    IN  IF n < senkou_b
        THEN [tenkan_sen |-> Rep(n, NONE), kijun_sen |-> Rep(n, NONE),
              senkou_a |-> Rep(n, NONE), senkou_b |-> Rep(n, NONE),
              chikou_span |-> Rep(n, NONE)]
        ELSE [tenkan_sen |-> tenkan_sen, kijun_sen |-> kijun_sen,
              senkou_a |-> Cut(senkou_a, n),
              senkou_b |-> Cut(senkou_b_vals, n),
              chikou_span |-> chikou_span]

-----------------------------------------------------------------------------
(* Time and the external sources *)

Date(ts) == ts \div DAY_SECONDS

\* The two sources report the same prices and differ in the volume
Volume == [polygon |-> 1, kraken |-> 2]

\* candles of the n days ending on day last, all of one volume
DailySeries(last, n, volume) ==
    [i \in 1..n |-> Candle((last - n + i) * DAY_SECONDS, volume)]

\* What a full historical request may answer on day today: nothing (an error,
\* a timeout, a non-200 status, no results), a short history, the full history
FullAnswers(today, volume) ==
    { <<>>, DailySeries(today, ShortDays, volume), DailySeries(today, HistoryDays, volume) }

\* What the incremental request for start_day..end_day may answer: nothing, or
\* the candles of those days
IncrementalAnswers(start_day, end_day) ==
    { <<>>, DailySeries(end_day, end_day - start_day + 1, Volume.polygon) }


TickSteps == {150, DAY_SECONDS}

StartDay == 2 * HistoryDays
StartTime == StartDay * DAY_SECONDS + 3600

-----------------------------------------------------------------------------
(* Derived dataset *)

RawFields == {"time", "open", "high", "low", "close", "volume"}

DatasetFields ==
    RawFields \cup
    {"sma_20", "sma_50", "sma_200", "ema_12", "ema_26", "rsi", "macd",
     "macd_signal", "macd_histogram", "bb_upper", "bb_middle", "bb_lower", "atr",
     "stoch_k", "stoch_d", "obv", "mfi", "cci", "williams_r", "adx", "plus_di",
     "minus_di", "vwap"}

\* The dictionary build_full_data_cache returns: the six columns of the
\* candles and the 23 indicator lists
dataset_record(times, opens, highs, lows, closes, volumes, macd, bb, stoch, adx) ==
    [time |-> times, open |-> opens, high |-> highs, low |-> lows,
     close |-> closes, volume |-> volumes,
     sma_20 |-> calculate_sma(closes, PERIOD_20),
     sma_50 |-> calculate_sma(closes, SMA_PERIOD),
     sma_200 |-> calculate_sma(closes, SMA_LONG),
     ema_12 |-> calculate_ema(closes, MACD_FAST),
     ema_26 |-> calculate_ema(closes, MACD_SLOW),
     rsi |-> calculate_rsi(closes, PERIOD_14),
     macd |-> macd[1], macd_signal |-> macd[2], macd_histogram |-> macd[3],
     bb_upper |-> bb[1], bb_middle |-> bb[2], bb_lower |-> bb[3],
     atr |-> calculate_atr(highs, lows, closes, PERIOD_14),
     stoch_k |-> stoch[1], stoch_d |-> stoch[2],
     obv |-> calculate_obv(closes, volumes),
     mfi |-> calculate_mfi(highs, lows, closes, volumes, PERIOD_14),
     cci |-> calculate_cci(highs, lows, closes, PERIOD_20),
     williams_r |-> calculate_williams_r(highs, lows, closes, PERIOD_14),
     adx |-> adx[1], plus_di |-> adx[2], minus_di |-> adx[3],
     vwap |-> calculate_vwap(highs, lows, closes, volumes)]

\* The indicators that give more than one list
indicators_of(times, opens, highs, lows, closes, volumes) ==
    dataset_record(times, opens, highs, lows, closes, volumes,
        calculate_macd(closes, MACD_FAST, MACD_SLOW, MACD_SIGNAL),
        calculate_bollinger_bands(closes, PERIOD_20, BB_STD_DEV),
        calculate_stochastic(highs, lows, closes, PERIOD_14, STOCH_D_PERIOD),
        calculate_adx(highs, lows, closes, PERIOD_14))

\* [item[field] for item in ohlc]
Column(candles, field) == List([i \in 1..Len(candles) |-> Num(candles[i][field])])

\* The columns and indicators of build_full_data_cache
columns_of(ohlc) ==
    indicators_of(Column(ohlc, "time"), Column(ohlc, "open"), Column(ohlc, "high"),
                  Column(ohlc, "low"), Column(ohlc, "close"), Column(ohlc, "volume"))

\* Every column as a list
Concrete(columns) == [k \in DOMAIN columns |-> List(columns[k])]

\* full_data of build_full_data_cache
full_data_of(ohlc) == Concrete(columns_of(ohlc))

\* The series the store of this model can hold: a full answer of a source on
\* one of the days the model covers, with the candles of the incremental
\* updates since; and the datasets built of them, worked out once
ModelDays == (StartDay - 2)..(StartDay + MaxTicks)

KnownSeries ==
    { DailySeries(last, HistoryDays, volume)
          \o DailySeries(today, today - last, Volume.polygon) :
          <<last, today>> \in {d \in ModelDays \X ModelDays : d[1] <= d[2]},
          volume \in {Volume.polygon, Volume.kraken} }

KnownDatasets == [ohlc \in KnownSeries |-> full_data_of(ohlc)]

\* The dataset of a series: looked up where it is worked out already
BuiltDataset(ohlc) ==
    IF ohlc \in KnownSeries THEN KnownDatasets[ohlc] ELSE full_data_of(ohlc)

build_full_data_cachePartial(ohlc) ==
    IF ohlc = <<>> \/ Len(ohlc) < MIN_CANDLES
    THEN [k \in RawFields |-> BuiltDataset(ohlc)[k]]
    ELSE BuiltDataset(ohlc)

build_full_data_cache(ohlc) ==
    IF ohlc = <<>> \/ Len(ohlc) < MIN_CANDLES THEN None
    ELSE BuiltDataset(ohlc)

\* sanitize_for_json: NaN (and inf) cells of every list column become None
sanitize_for_json(data_dict) ==
    [k \in DOMAIN data_dict |->
        [i \in 1..Len(data_dict[k]) |->
            IF data_dict[k][i] = NAN THEN NONE ELSE data_dict[k][i]]]

\* pd.DataFrame(data_dict).to_parquet: a None cell is stored as NaN
ToParquet(data_dict) ==
    [k \in DOMAIN data_dict |->
        [i \in 1..Len(data_dict[k]) |->
            IF data_dict[k][i] = NONE THEN NAN ELSE data_dict[k][i]]]

\* A dataset with every named field present and index-aligned to its candles
IsCompleteDataset(d) ==
    /\ d # None
    /\ DOMAIN d = DatasetFields
    /\ \A k \in DatasetFields : Len(d[k]) = Len(d.time)
    /\ Len(d.time) >= MIN_CANDLES

-----------------------------------------------------------------------------
(* Initial state: a process that has just started.  The memory tier is     *)
(* empty; the durable files are whatever an earlier process left behind.   *)

NoLocals ==
    [caller |-> "none", current_time |-> 0, o_time |-> 0, cached |-> <<>>,
     last_ts |-> 0, ohlc |-> <<>>, data |-> None, built_at |-> 0,
     full_ret |-> None, resp |-> "none"]

NoHistory ==
    [log |-> <<>>, stale |-> FALSE, rebuilt |-> FALSE, had |-> FALSE,
     empty_start |-> FALSE, src_ok |-> FALSE, net |-> FALSE, saved |-> FALSE,
     recent |-> FALSE, read_fault |-> FALSE, snap_fault |-> FALSE,
     req_start |-> 0]

\* No write yet: both fields of MEMORY_CACHE are as the module defines them.
\* The writes are numbered 1, 2, ...; data and stamp are the numbers of the
\* writes that put full_data and last_update, by[t] the write thread t is in.
\* built and file_built are the times at which the dataset in memory and the
\* dataset in the parquet file were built: an earlier process built the file
\* this process starts with
NoWrite ==
    [data |-> 0, stamp |-> 0, ops |-> 0, by |-> [t \in Threads |-> 0],
     built |-> 0, file_built |-> StartTime - DAY_SECONDS]

NoMerge == [stage |-> "off", S |-> <<>>, B |-> <<>>, R1 |-> <<>>, R2 |-> <<>>, RS |-> <<>>]

OldSnapshots ==
    { <<>>,
      DailySeries(StartDay, HistoryDays, Volume.kraken),
      DailySeries(StartDay - 2, HistoryDays, Volume.kraken) }

OldDatasets ==
    { None,
      ToParquet(build_full_data_cache(DailySeries(StartDay - 2, HistoryDays, Volume.kraken))) }

InitProcess(running, keys, snapshots, datasets, failed) ==
    /\ SERVERLESS_MODE \in BOOLEAN
    /\ POLYGON_API_KEY \in keys
    /\ now = StartTime
    /\ ticks = 0
    /\ MEMORY_CACHE = [full_data |-> None, last_update |-> 0]
    /\ CACHE_LOCK = 0
    /\ BTC_CACHE_LAST_UPDATE = 0
    /\ btc_file \in snapshots
    /\ full_file \in datasets
    /\ pc = [t \in Threads |-> IF t \in running THEN "idle" ELSE "off"]
    /\ loc = [t \in Threads |-> NoLocals]
    /\ hist = [t \in Threads |-> NoHistory]
    /\ prev = [valid |-> FALSE, start |-> 0, ok |-> FALSE, net |-> FALSE]
    /\ started = 0
    /\ faults = failed
    /\ m = NoMerge
    /\ written = NoWrite

\* Requests served one after the other, in every configuration and over
\* every set of files
Init == InitProcess({1}, BOOLEAN, OldSnapshots, OldDatasets, 0)

\* Requests served by concurrent threads: a key is configured, an earlier
\* process left both files (which serverless mode ignores), and the file
\* operations do not fail
InitConc ==
    InitProcess(Threads, {TRUE}, {DailySeries(StartDay - 2, HistoryDays, Volume.kraken)},
                OldDatasets \ {None}, MaxFaults)

config == << SERVERLESS_MODE, POLYGON_API_KEY >>
clock == << now, ticks >>

-----------------------------------------------------------------------------
(* Durable tier *)

\* The outcomes of reading or writing a file: a read can fail only if the
\* file exists, a write can always fail
ReadFaults(exists) == IF exists /\ faults < MaxFaults THEN {FALSE, TRUE} ELSE {FALSE}
WriteFaults == IF ~SERVERLESS_MODE /\ faults < MaxFaults THEN {FALSE, TRUE} ELSE {FALSE}
Count(fault) == faults' = IF fault THEN faults + 1 ELSE faults

load_btc_cacheAnyMode(fault) ==
    IF btc_file # <<>> /\ ~fault THEN btc_file ELSE <<>>

load_btc_cache(fault) ==
    IF SERVERLESS_MODE THEN <<>>
    ELSE IF btc_file # <<>> /\ ~fault THEN btc_file
    ELSE <<>>

save_btc_cacheMerging(ohlc_data, fault) ==
    IF SERVERLESS_MODE \/ fault THEN btc_file
    ELSE merge_and_dedupe_ohlc(btc_file, ohlc_data)

save_btc_cache(ohlc_data, fault) ==
    IF SERVERLESS_MODE \/ fault THEN btc_file ELSE ohlc_data

\* max(item['time'] for item in cached), None for an absent or empty cache
get_last_cached_timestamp(fault) ==
    LET cached == load_btc_cache(fault)
    IN  IF cached # <<>> THEN MaxOf(Times(cached)) ELSE 0

\* The durable snapshot as the store can see it
SnapshotAvailable == ~SERVERLESS_MODE /\ btc_file # <<>>
DatasetAvailable == ~SERVERLESS_MODE /\ full_file # None

\* fetch_incremental_btc_data returns [] before asking the source when the
\* day after the last candle is not before today
AlreadyUpToDate(last_timestamp, at) ==
    Date(last_timestamp + DAY_SECONDS) >= Date(at)

\* current_time - last_update < 300
WithinWindow(at, last_update) == at - last_update < FRESH_SECONDS


-----------------------------------------------------------------------------
(* Requests.  A thread serves one request at a time: the chart endpoint     *)
(* (get_bitcoin_chart_data) or the candle endpoint (get_bitcoin_ohlc).      *)

Set(f, t, r) == [f EXCEPT ![t] = r]

Log(t, fn, res, net) ==
    Append(hist[t].log, [fn |-> fn, res |-> res, net |-> net])

\* get_bitcoin_chart_data calls get_full_chart_data, which reads the clock
StartChart(t) ==
    /\ pc[t] = "idle"
    /\ started < MaxRequests
    /\ started' = started + 1
    /\ pc' = Set(pc, t, "g_tier1")
    /\ loc' = Set(loc, t, [NoLocals EXCEPT !.caller = "get", !.current_time = now])
    /\ hist' = Set(hist, t,
          [NoHistory EXCEPT
              !.had = (MEMORY_CACHE.full_data # None \/ DatasetAvailable),
              !.empty_start = /\ MEMORY_CACHE.full_data = None
                              /\ ~DatasetAvailable
                              /\ ~SnapshotAvailable])
    /\ UNCHANGED << config, clock, MEMORY_CACHE, CACHE_LOCK, BTC_CACHE_LAST_UPDATE,
                    btc_file, full_file, prev, faults, m, written >>

\* get_bitcoin_ohlc calls get_btc_ohlc_with_cache
StartOhlc(t) ==
    /\ pc[t] = "idle"
    /\ started < MaxRequests
    /\ started' = started + 1
    /\ pc' = Set(pc, t, "o_load")
    /\ loc' = Set(loc, t, [NoLocals EXCEPT !.caller = "ohlc"])
    /\ hist' = Set(hist, t, NoHistory)
    /\ UNCHANGED << config, clock, MEMORY_CACHE, CACHE_LOCK, BTC_CACHE_LAST_UPDATE,
                    btc_file, full_file, prev, faults, m, written >>

\* with CACHE_LOCK: (entering any of the four blocks)
LockedAt == [g_tier1 |-> "g_check", l_tier1 |-> "l_check",
             l_lock |-> "l_write1", s_lock |-> "s_write1"]

AcquireUnlocked(t) ==
    /\ pc[t] \in DOMAIN LockedAt
    /\ CACHE_LOCK' = t
    /\ pc' = Set(pc, t, LockedAt[pc[t]])
    /\ UNCHANGED << config, clock, MEMORY_CACHE, BTC_CACHE_LAST_UPDATE, btc_file,
                    full_file, loc, hist, prev, started, faults, m, written >>

Acquire(t) ==
    /\ pc[t] \in DOMAIN LockedAt
    /\ CACHE_LOCK = 0
    /\ CACHE_LOCK' = t
    /\ pc' = Set(pc, t, LockedAt[pc[t]])
    /\ UNCHANGED << config, clock, MEMORY_CACHE, BTC_CACHE_LAST_UPDATE, btc_file,
                    full_file, loc, hist, prev, started, faults, m, written >>

\* Leaving a with CACHE_LOCK: block, by its end or by a return inside it,
\* releases the lock
ReleasedNever(t) == t

Released(t) == 0

\* get_full_chart_data, tier 1: a fresh memory entry is returned
MemoryServes(current_time) ==
    /\ MEMORY_CACHE.full_data # None
    /\ WithinWindow(current_time, MEMORY_CACHE.last_update)

G_Check(t) ==
    /\ pc[t] = "g_check"
    /\ CACHE_LOCK' = Released(t)
    /\ IF MemoryServes(loc[t].current_time)
       THEN /\ loc' = Set(loc, t, [loc[t] EXCEPT !.full_ret = MEMORY_CACHE.full_data])
            /\ pc' = Set(pc, t, "g_ret")
            /\ hist' = hist
       ELSE /\ loc' = loc
            /\ pc' = Set(pc, t, "l_tier1")
            /\ hist' = Set(hist, t,
                  [hist[t] EXCEPT !.stale = (MEMORY_CACHE.full_data # None)])
    /\ UNCHANGED << config, clock, MEMORY_CACHE, BTC_CACHE_LAST_UPDATE, btc_file,
                    full_file, prev, started, faults, m, written >>

\* load_full_data_cache, tier 1: any memory entry is returned, whatever its age
MemoryHoldsNever == FALSE

MemoryHolds == MEMORY_CACHE.full_data # None

L_Check(t) ==
    /\ pc[t] = "l_check"
    /\ CACHE_LOCK' = Released(t)
    /\ IF MemoryHolds
       THEN /\ loc' = Set(loc, t, [loc[t] EXCEPT !.full_ret = MEMORY_CACHE.full_data])
            /\ pc' = Set(pc, t, "g_ret")
       ELSE /\ loc' = loc
            /\ pc' = Set(pc, t, "l_file")
    /\ UNCHANGED << config, clock, MEMORY_CACHE, BTC_CACHE_LAST_UPDATE, btc_file,
                    full_file, hist, prev, started, faults, m, written >>

\* load_full_data_cache, tier 2: the parquet file, sanitized; a failed read
\* and an absent file both give None, and get_full_chart_data goes on to tier 3
L_File(t) ==
    /\ pc[t] = "l_file"
    /\ \E fault \in ReadFaults(DatasetAvailable) :
          /\ Count(fault)
          /\ IF DatasetAvailable /\ ~fault
             THEN /\ loc' = Set(loc, t, [loc[t] EXCEPT
                               !.data = sanitize_for_json(full_file),
                               !.built_at = written.file_built])
                  /\ pc' = Set(pc, t, "l_lock")
                  /\ hist' = hist
             ELSE /\ loc' = loc
                  /\ pc' = Set(pc, t, "o_load")
                  /\ hist' = Set(hist, t, [hist[t] EXCEPT !.read_fault = fault, !.rebuilt = TRUE])
    /\ UNCHANGED << config, clock, MEMORY_CACHE, CACHE_LOCK, BTC_CACHE_LAST_UPDATE,
                    btc_file, full_file, prev, started, m, written >>

\* MEMORY_CACHE['full_data'] = ... (first statement under the lock, in
\* load_full_data_cache and in save_full_data_cache)
SavedEntryDropped(data_dict) == MEMORY_CACHE.full_data

SavedEntry(data_dict) == sanitize_for_json(data_dict)

WriteData(t) ==
    /\ pc[t] \in {"l_write1", "s_write1"}
    /\ CACHE_LOCK = t
    /\ MEMORY_CACHE' = [MEMORY_CACHE EXCEPT !.full_data =
          IF pc[t] = "s_write1" THEN SavedEntry(loc[t].data) ELSE loc[t].data]
    /\ pc' = Set(pc, t, IF pc[t] = "l_write1" THEN "l_write2" ELSE "s_write2")
    /\ written' = [written EXCEPT !.ops = @ + 1, !.data = written.ops + 1,
                                   !.by = Set(@, t, written.ops + 1),
                                   !.built = loc[t].built_at]
    /\ UNCHANGED << config, clock, CACHE_LOCK, BTC_CACHE_LAST_UPDATE, btc_file,
                    full_file, loc, hist, prev, started, faults, m >>

\* MEMORY_CACHE['last_update'] = time_module.time() (second statement), and
\* the lock is released; load_full_data_cache then returns the dataset
WriteStamp(t) ==
    /\ pc[t] \in {"l_write2", "s_write2"}
    /\ CACHE_LOCK = t
    /\ MEMORY_CACHE' = [MEMORY_CACHE EXCEPT !.last_update = now]
    /\ CACHE_LOCK' = Released(t)
    /\ IF pc[t] = "l_write2"
       THEN /\ loc' = Set(loc, t, [loc[t] EXCEPT !.full_ret = loc[t].data])
            /\ pc' = Set(pc, t, "g_ret")
       ELSE /\ loc' = loc
            /\ pc' = Set(pc, t, "s_file")
    /\ written' = [written EXCEPT !.stamp = written.by[t], !.by = Set(@, t, 0)]
    /\ UNCHANGED << config, clock, BTC_CACHE_LAST_UPDATE, btc_file, full_file,
                    hist, prev, started, faults, m >>


-----------------------------------------------------------------------------
(* OHLC store: get_btc_ohlc_with_cache *)

\* BTC_CACHE_LAST_UPDATE and (current_time - BTC_CACHE_LAST_UPDATE) < 300
RecentlyUpdated(current_time) ==
    /\ BTC_CACHE_LAST_UPDATE # 0
    /\ WithinWindow(current_time, BTC_CACHE_LAST_UPDATE)

\* The store's bookkeeping when a call starts
StoreHistory(t, fault) ==
    [hist[t] EXCEPT
        !.log = <<>>, !.saved = FALSE, !.req_start = 0,
        !.snap_fault = fault,
        !.recent = /\ SnapshotAvailable
                   /\ AlreadyUpToDate(MaxOf(Times(btc_file)), now)]

\* Where the call goes once the cache is loaded: straight back with a cache
\* refreshed less than 5 minutes ago, to the incremental update with any
\* other cache, to the full fetch with none
AfterLoadAlwaysFull(direct, cached) ==
    IF direct THEN "o_ret" ELSE "o_polygon"

AfterLoad(direct, cached) ==
    IF direct THEN "o_ret"
    ELSE IF cached # <<>> THEN "o_lastts"
    ELSE "o_polygon"

\* current_time = time(); cached = load_btc_cache(); a cache this process
\* refreshed less than 5 minutes ago is returned as it is
O_Load(t) ==
    /\ pc[t] = "o_load"
    /\ \E fault \in ReadFaults(SnapshotAvailable) :
          LET cached == load_btc_cache(fault)
              direct == RecentlyUpdated(now) /\ cached # <<>>
          IN  /\ loc' = Set(loc, t, [loc[t] EXCEPT
                            !.o_time = now, !.cached = cached, !.last_ts = 0,
                            !.ohlc = IF direct THEN cached ELSE <<>>])
              /\ pc' = Set(pc, t, AfterLoad(direct, cached))
              /\ hist' = Set(hist, t, StoreHistory(t, fault))
              /\ Count(fault)
    /\ UNCHANGED << config, clock, MEMORY_CACHE, CACHE_LOCK, BTC_CACHE_LAST_UPDATE,
                    btc_file, full_file, prev, started, m, written >>

\* last_ts = get_last_cached_timestamp(), which loads the file again
O_LastTs(t) ==
    /\ pc[t] = "o_lastts"
    /\ \E fault \in ReadFaults(SnapshotAvailable) :
          LET last_ts == get_last_cached_timestamp(fault)
          IN  /\ loc' = Set(loc, t, [loc[t] EXCEPT !.last_ts = last_ts])
              /\ pc' = Set(pc, t, IF last_ts # 0 THEN "o_incr" ELSE "o_polygon")
              /\ hist' = Set(hist, t, [hist[t] EXCEPT !.snap_fault = @ \/ fault])
              /\ Count(fault)
    /\ UNCHANGED << config, clock, MEMORY_CACHE, CACHE_LOCK, BTC_CACHE_LAST_UPDATE,
                    btc_file, full_file, prev, started, m, written >>

\* The store returns a series it fetched or merged: it is saved first, and
\* BTC_CACHE_LAST_UPDATE = current_time
StoreAndReturn(t, series, fault) ==
    /\ btc_file' = save_btc_cache(series, fault)
    /\ Count(fault)
    /\ BTC_CACHE_LAST_UPDATE' = loc[t].o_time
    /\ loc' = Set(loc, t, [loc[t] EXCEPT !.ohlc = series])
    /\ pc' = Set(pc, t, "o_ret")

\* new_data = fetch_incremental_btc_data(last_ts): None without a key, [] when
\* the day after last_ts is not before today, else the source's answer
O_Incremental(t) ==
    /\ pc[t] = "o_incr"
    /\ LET start_date == Date(loc[t].last_ts + DAY_SECONDS)
           end_date == Date(now)
       IN  IF ~POLYGON_API_KEY
           THEN /\ pc' = Set(pc, t, "o_polygon")
                /\ hist' = Set(hist, t, [hist[t] EXCEPT !.log = Log(t, "incremental", "none", FALSE)])
                /\ UNCHANGED << loc, btc_file, BTC_CACHE_LAST_UPDATE, faults >>
           ELSE IF AlreadyUpToDate(loc[t].last_ts, now)
           THEN /\ pc' = Set(pc, t, "o_ret")
                /\ loc' = Set(loc, t, [loc[t] EXCEPT !.ohlc = loc[t].cached])
                /\ BTC_CACHE_LAST_UPDATE' = loc[t].o_time
                /\ hist' = Set(hist, t, [hist[t] EXCEPT !.log = Log(t, "incremental", "empty", FALSE)])
                /\ UNCHANGED << btc_file, faults >>
           ELSE \E new_data \in IncrementalAnswers(start_date, end_date) :
                  IF new_data = <<>>
                  THEN /\ pc' = Set(pc, t, "o_polygon")
                       /\ hist' = Set(hist, t, [hist[t] EXCEPT
                              !.log = Log(t, "incremental", "none", TRUE),
                              !.net = TRUE, !.req_start = start_date])
                       /\ UNCHANGED << loc, btc_file, BTC_CACHE_LAST_UPDATE, faults >>
                  ELSE \E fault \in WriteFaults :
                       /\ StoreAndReturn(t, merge_and_dedupe_ohlc(loc[t].cached, new_data),
                                         fault)
                       /\ hist' = Set(hist, t, [hist[t] EXCEPT
                              !.log = Log(t, "incremental", "data", TRUE),
                              !.net = TRUE, !.req_start = start_date,
                              !.src_ok = TRUE, !.saved = ~SERVERLESS_MODE /\ ~fault])
    /\ UNCHANGED << config, clock, MEMORY_CACHE, CACHE_LOCK, full_file, prev,
                    started, m, written >>

\* ohlc = fetch_polygon_btc_ohlc(365): None without a key
O_Polygon(t) ==
    /\ pc[t] = "o_polygon"
    /\ \E ohlc \in (IF POLYGON_API_KEY THEN FullAnswers(Date(now), Volume.polygon) ELSE {<<>>}) :
          IF ohlc # <<>>
          THEN \E fault \in WriteFaults :
               /\ StoreAndReturn(t, ohlc, fault)
               /\ hist' = Set(hist, t, [hist[t] EXCEPT
                      !.log = Log(t, "polygon", "data", TRUE), !.net = TRUE,
                      !.src_ok = TRUE, !.saved = ~SERVERLESS_MODE /\ ~fault])
          ELSE /\ pc' = Set(pc, t, "o_kraken")
               /\ hist' = Set(hist, t, [hist[t] EXCEPT
                      !.log = Log(t, "polygon", "none", POLYGON_API_KEY),
                      !.net = @ \/ POLYGON_API_KEY])
               /\ UNCHANGED << loc, btc_file, BTC_CACHE_LAST_UPDATE, faults >>
    /\ UNCHANGED << config, clock, MEMORY_CACHE, CACHE_LOCK, full_file, prev,
                    started, m, written >>

\* if not ohlc: ohlc = fetch_kraken_btc_ohlc(); with no answer from either
\* source the call falls back to the cache it loaded, else returns []
FallbackEmpty(cached) == <<>>

Fallback(cached) == cached

O_Kraken(t) ==
    /\ pc[t] = "o_kraken"
    /\ \E ohlc \in FullAnswers(Date(now), Volume.kraken) :
          IF ohlc # <<>>
          THEN \E fault \in WriteFaults :
               /\ StoreAndReturn(t, ohlc, fault)
               /\ hist' = Set(hist, t, [hist[t] EXCEPT
                      !.log = Log(t, "kraken", "data", TRUE), !.net = TRUE,
                      !.src_ok = TRUE, !.saved = ~SERVERLESS_MODE /\ ~fault])
          ELSE /\ loc' = Set(loc, t, [loc[t] EXCEPT !.ohlc = Fallback(loc[t].cached)])
               /\ pc' = Set(pc, t, "o_ret")
               /\ hist' = Set(hist, t, [hist[t] EXCEPT
                      !.log = Log(t, "kraken", "none", TRUE), !.net = TRUE])
               /\ UNCHANGED << btc_file, BTC_CACHE_LAST_UPDATE, faults >>
    /\ UNCHANGED << config, clock, MEMORY_CACHE, CACHE_LOCK, full_file, prev,
                    started, m, written >>


-----------------------------------------------------------------------------
(* Tier 3 of get_full_chart_data, and the endpoints around it *)

\* if ohlc: full_data = build_full_data_cache(ohlc)
BuildIfAny(ohlc) == IF ohlc # <<>> THEN build_full_data_cache(ohlc) ELSE None

\* ohlc = get_btc_ohlc_with_cache() has returned to get_full_chart_data:
\* build and save, or return None
G_Build(t) ==
    /\ pc[t] = "o_ret"
    /\ loc[t].caller = "get"
    /\ LET full_data == BuildIfAny(loc[t].ohlc)
       IN  IF full_data # None
           THEN /\ loc' = Set(loc, t, [loc[t] EXCEPT !.data = full_data, !.built_at = now])
                /\ pc' = Set(pc, t, "s_lock")
           ELSE /\ loc' = Set(loc, t, [loc[t] EXCEPT !.full_ret = None])
                /\ pc' = Set(pc, t, "g_ret")
    /\ UNCHANGED << config, clock, MEMORY_CACHE, CACHE_LOCK, BTC_CACHE_LAST_UPDATE,
                    btc_file, full_file, hist, prev, started, faults, m, written >>

\* save_full_data_cache, after the memory entry is replaced: the parquet file
\* is written unless in serverless mode, a failed write is only logged; then
\* the caller returns the dataset it built
S_File(t) ==
    /\ pc[t] = "s_file"
    /\ \E fault \in WriteFaults :
          /\ full_file' = IF SERVERLESS_MODE \/ fault THEN full_file
                          ELSE ToParquet(loc[t].data)
          /\ written' = [written EXCEPT !.file_built =
                            IF SERVERLESS_MODE \/ fault THEN @ ELSE loc[t].built_at]
          /\ Count(fault)
    /\ IF loc[t].caller = "get"
       THEN /\ loc' = Set(loc, t, [loc[t] EXCEPT !.full_ret = loc[t].data])
            /\ pc' = Set(pc, t, "g_ret")
       ELSE /\ loc' = Set(loc, t, [loc[t] EXCEPT !.resp = "ok"])
            /\ pc' = Set(pc, t, "done")
    /\ UNCHANGED << config, clock, MEMORY_CACHE, CACHE_LOCK, BTC_CACHE_LAST_UPDATE,
                    btc_file, hist, prev, started, m >>

\* get_full_chart_data has returned to get_bitcoin_chart_data: a dataset is
\* answered, None sends the endpoint to its direct calculation
C_AfterGet(t) ==
    /\ pc[t] = "g_ret"
    /\ prev' = [valid |-> TRUE, start |-> loc[t].current_time,
                ok |-> (loc[t].full_ret # None), net |-> hist[t].net]
    /\ IF loc[t].full_ret # None
       THEN /\ loc' = Set(loc, t, [loc[t] EXCEPT !.resp = "ok"])
            /\ pc' = Set(pc, t, "done")
       ELSE /\ loc' = Set(loc, t, [loc[t] EXCEPT !.caller = "fallback"])
            /\ pc' = Set(pc, t, "o_load")
    /\ UNCHANGED << config, clock, MEMORY_CACHE, CACHE_LOCK, BTC_CACHE_LAST_UPDATE,
                    btc_file, full_file, hist, started, faults, m, written >>

\* The endpoint's direct calculation: no candles or no dataset is the error
\* payload {'error': 'No data available', 'ohlc': [], 'indicators': {}}
C_Fallback(t) ==
    /\ pc[t] = "o_ret"
    /\ loc[t].caller = "fallback"
    /\ LET full_data == BuildIfAny(loc[t].ohlc)
       IN  IF full_data # None
           THEN /\ loc' = Set(loc, t, [loc[t] EXCEPT !.data = full_data, !.built_at = now])
                /\ pc' = Set(pc, t, "s_lock")
           ELSE /\ loc' = Set(loc, t, [loc[t] EXCEPT !.resp = "error"])
                /\ pc' = Set(pc, t, "done")
    /\ UNCHANGED << config, clock, MEMORY_CACHE, CACHE_LOCK, BTC_CACHE_LAST_UPDATE,
                    btc_file, full_file, hist, prev, started, faults, m, written >>

\* get_bitcoin_ohlc answers the candles it got
R_Ohlc(t) ==
    /\ pc[t] = "o_ret"
    /\ loc[t].caller = "ohlc"
    /\ loc' = Set(loc, t, [loc[t] EXCEPT !.resp = "candles"])
    /\ pc' = Set(pc, t, "done")
    /\ UNCHANGED << config, clock, MEMORY_CACHE, CACHE_LOCK, BTC_CACHE_LAST_UPDATE,
                    btc_file, full_file, hist, prev, started, faults, m, written >>

\* The response is sent and the thread is free again
Finish(t) ==
    /\ pc[t] = "done"
    /\ pc' = Set(pc, t, "idle")
    /\ loc' = Set(loc, t, NoLocals)
    /\ hist' = Set(hist, t, NoHistory)
    /\ UNCHANGED << config, clock, MEMORY_CACHE, CACHE_LOCK, BTC_CACHE_LAST_UPDATE,
                    btc_file, full_file, prev, started, faults, m, written >>

\* The wall clock advances.  Requests are short against the steps of the
\* clock: it advances between requests
Tick ==
    /\ ticks < MaxTicks
    /\ \A t \in Threads : pc[t] \in {"idle", "off"}
    /\ \E d \in TickSteps : now' = now + d
    /\ ticks' = ticks + 1
    /\ UNCHANGED << config, MEMORY_CACHE, CACHE_LOCK, BTC_CACHE_LAST_UPDATE, btc_file,
                    full_file, pc, loc, hist, prev, started, faults, m, written >>

Step(t) ==
    \/ StartChart(t)
    \/ StartOhlc(t)
    \/ Acquire(t)
    \/ G_Check(t)
    \/ L_Check(t)
    \/ L_File(t)
    \/ WriteData(t)
    \/ WriteStamp(t)
    \/ O_Load(t)
    \/ O_LastTs(t)
    \/ O_Incremental(t)
    \/ O_Polygon(t)
    \/ O_Kraken(t)
    \/ G_Build(t)
    \/ S_File(t)
    \/ C_AfterGet(t)
    \/ C_Fallback(t)
    \/ R_Ohlc(t)
    \/ Finish(t)

Next == Tick \/ \E t \in Threads : Step(t)

Spec == Init /\ [][Next]_vars

ConcSpec == InitConc /\ [][Next]_vars

\* Concurrent threads in a process that writes its files and starts with a
\* snapshot but no dataset file, so that the first requests rebuild; the file
\* operations do not fail
InitRebuild ==
    /\ SERVERLESS_MODE = FALSE
    /\ InitProcess(Threads, {TRUE}, {DailySeries(StartDay - 2, HistoryDays, Volume.kraken)},
                   {None}, MaxFaults)

RebuildSpec == InitRebuild /\ [][Next]_vars

\* The steps of a request that is under way: the scheduler runs every thread
\* that can go on, and every external fetch and file operation returns
Proceed(t) ==
    \/ Acquire(t)
    \/ G_Check(t)
    \/ L_Check(t)
    \/ L_File(t)
    \/ WriteData(t)
    \/ WriteStamp(t)
    \/ O_Load(t)
    \/ O_LastTs(t)
    \/ O_Incremental(t)
    \/ O_Polygon(t)
    \/ O_Kraken(t)
    \/ G_Build(t)
    \/ S_File(t)
    \/ C_AfterGet(t)
    \/ C_Fallback(t)
    \/ R_Ohlc(t)
    \/ Finish(t)

FairSpec == ConcSpec /\ \A t \in Threads : WF_vars(Proceed(t))


-----------------------------------------------------------------------------
(* merge_and_dedupe_ohlc as a function: a snapshot S and a batch B are      *)
(* drawn, then merged once, the batch merged again, and S merged with       *)
(* itself.  S is a CandleSeries; B is whatever a source sent, in any order  *)
(* and with repeated timestamps.                                            *)

SeqsUpTo(S, n) == UNION {[1..k -> S] : k \in 0..n}

MergeCandles == {Candle(t, v) : t \in 1..MergeTimes, v \in {Volume.polygon, Volume.kraken}}

InitMerge ==
    /\ SERVERLESS_MODE = FALSE
    /\ POLYGON_API_KEY = TRUE
    /\ now = StartTime
    /\ ticks = 0
    /\ MEMORY_CACHE = [full_data |-> None, last_update |-> 0]
    /\ written = NoWrite
    /\ CACHE_LOCK = 0
    /\ BTC_CACHE_LAST_UPDATE = 0
    /\ btc_file = <<>>
    /\ full_file = None
    /\ pc = [t \in Threads |-> "off"]
    /\ loc = [t \in Threads |-> NoLocals]
    /\ hist = [t \in Threads |-> NoHistory]
    /\ prev = [valid |-> FALSE, start |-> 0, ok |-> FALSE, net |-> FALSE]
    /\ started = 0
    /\ faults = 0
    /\ \E S \in {s \in SeqsUpTo(MergeCandles, MergeTimes) : IsCandleSeries(s)},
          B \in SeqsUpTo(MergeCandles, MaxBatchLen) :
          m = [NoMerge EXCEPT !.stage = "in", !.S = S, !.B = B]

MergeBatch ==
    /\ m.stage = "in"
    /\ m' = [m EXCEPT !.stage = "once", !.R1 = merge_and_dedupe_ohlc(m.S, m.B)]
    /\ UNCHANGED << config, clock, MEMORY_CACHE, CACHE_LOCK, BTC_CACHE_LAST_UPDATE,
                    btc_file, full_file, pc, loc, hist, prev, started, faults,
                    written >>

MergeAgain ==
    /\ m.stage = "once"
    /\ m' = [m EXCEPT !.stage = "twice", !.R2 = merge_and_dedupe_ohlc(m.R1, m.B)]
    /\ UNCHANGED << config, clock, MEMORY_CACHE, CACHE_LOCK, BTC_CACHE_LAST_UPDATE,
                    btc_file, full_file, pc, loc, hist, prev, started, faults,
                    written >>

MergeSelf ==
    /\ m.stage = "twice"
    /\ m' = [m EXCEPT !.stage = "self", !.RS = merge_and_dedupe_ohlc(m.S, m.S)]
    /\ UNCHANGED << config, clock, MEMORY_CACHE, CACHE_LOCK, BTC_CACHE_LAST_UPDATE,
                    btc_file, full_file, pc, loc, hist, prev, started, faults,
                    written >>

MergeNext == MergeBatch \/ MergeAgain \/ MergeSelf

MergeSpec == InitMerge /\ [][MergeNext]_vars


-----------------------------------------------------------------------------
(* build_full_data_cache as a function, and the Ichimoku series that the    *)
(* chart endpoint computes from the dataset for its response.  The series   *)
(* are daily candles, from none to a few more than the least the builder    *)
(* takes, flat or with a last day on which the price moved.                 *)

\* No request is running: the state of the process next to a function check
AtRest ==
    /\ SERVERLESS_MODE = FALSE
    /\ POLYGON_API_KEY = TRUE
    /\ now = StartTime
    /\ ticks = 0
    /\ MEMORY_CACHE = [full_data |-> None, last_update |-> 0]
    /\ written = NoWrite
    /\ CACHE_LOCK = 0
    /\ BTC_CACHE_LAST_UPDATE = 0
    /\ btc_file = <<>>
    /\ full_file = None
    /\ pc = [t \in Threads |-> "off"]
    /\ loc = [t \in Threads |-> NoLocals]
    /\ hist = [t \in Threads |-> NoHistory]
    /\ prev = [valid |-> FALSE, start |-> 0, ok |-> FALSE, net |-> FALSE]
    /\ started = 0
    /\ faults = 0

process == << config, clock, MEMORY_CACHE, CACHE_LOCK, BTC_CACHE_LAST_UPDATE,
              btc_file, full_file, pc, loc, hist, prev, started, faults,
                    written >>

\* The series with the price of its last day moved
LastDayMoved(series) ==
    IF series = <<>> THEN series
    ELSE [series EXCEPT ![Len(series)] =
            [@ EXCEPT !.high = FlatPrice + 10, !.low = FlatPrice - 5,
                      !.close = FlatPrice + 5]]

BuildSeries ==
    LET flat == { DailySeries(StartDay, n, volume) :
                      n \in 0..(HistoryDays + ShortDays),
                      volume \in {Volume.polygon, Volume.kraken} }
    IN  flat \cup { LastDayMoved(series) : series \in flat }

InitBuild ==
    /\ AtRest
    /\ \E series \in BuildSeries :
          m = [stage |-> "series", ohlc |-> series, data |-> None, ichimoku |-> None]

\* full_data = build_full_data_cache(ohlc)
BuildDataset ==
    /\ m.stage = "series"
    /\ m' = [m EXCEPT !.stage = "built", !.data = build_full_data_cache(m.ohlc)]
    /\ UNCHANGED process

\* get_bitcoin_chart_data, once it has a dataset:
\* ichimoku = sanitize_for_json(calculate_ichimoku(highs, lows, closes))
Respond ==
    /\ m.stage = "built"
    /\ m.data # None
    /\ m' = [m EXCEPT !.stage = "response",
                      !.ichimoku = sanitize_for_json(
                          calculate_ichimoku(m.data.high, m.data.low, m.data.close,
                                             TENKAN, KIJUN, SENKOU_B))]
    /\ UNCHANGED process

BuildNext == BuildDataset \/ Respond

BuildSpec == InitBuild /\ [][BuildNext]_vars


-----------------------------------------------------------------------------
(* The technical indicators as functions: a short series of candles and     *)
(* the periods p, q, r are drawn, and one indicator is computed.  Every     *)
(* result is kept as the tuple (or record) of the lists the function gives. *)

IndCandles ==
    { [high |-> 3, low |-> 1, close |-> 2, volume |-> 2],
      [high |-> 2, low |-> 2, close |-> 2, volume |-> 1],
      [high |-> 4, low |-> 2, close |-> 3, volume |-> 0] }

highs == Column(m.candles, "high")
lows == Column(m.candles, "low")
closes == Column(m.candles, "close")
volumes == Column(m.candles, "volume")

InitInd ==
    /\ AtRest
    /\ \E candles \in SeqsUpTo(IndCandles, MaxSeriesLen), p, q, r \in 1..MaxPeriod :
          m = [stage |-> "input", candles |-> candles, p |-> p, q |-> q, r |-> r,
               out |-> <<>>]

\* One indicator function is called on the input
Computed(fn, result) ==
    /\ m.stage = "input"
    /\ m' = [m EXCEPT !.stage = fn, !.out = result]
    /\ UNCHANGED process

Sma == Computed("sma", << calculate_sma(closes, m.p) >>)
Ema == Computed("ema", << calculate_ema(closes, m.p) >>)
Rsi == Computed("rsi", << calculate_rsi(closes, m.p) >>)
Macd == Computed("macd", calculate_macd(closes, m.q, m.p, m.r))
Bollinger == Computed("bollinger", calculate_bollinger_bands(closes, m.p, BB_STD_DEV))
Atr == Computed("atr", << calculate_atr(highs, lows, closes, m.p) >>)
Vwap == Computed("vwap", << calculate_vwap(highs, lows, closes, volumes) >>)
Stochastic == Computed("stochastic", calculate_stochastic(highs, lows, closes, m.p, m.q))
Obv == Computed("obv", << calculate_obv(closes, volumes) >>)
Mfi == Computed("mfi", << calculate_mfi(highs, lows, closes, volumes, m.p) >>)
Cci == Computed("cci", << calculate_cci(highs, lows, closes, m.p) >>)
WilliamsR == Computed("williams_r", << calculate_williams_r(highs, lows, closes, m.p) >>)
Adx == Computed("adx", calculate_adx(highs, lows, closes, m.p))
Ichimoku == Computed("ichimoku", calculate_ichimoku(highs, lows, closes, m.q, m.r, m.p))

IndNext ==
    \/ Sma \/ Ema \/ Rsi \/ Macd \/ Bollinger \/ Atr \/ Vwap \/ Stochastic
    \/ Obv \/ Mfi \/ Cci \/ WilliamsR \/ Adx \/ Ichimoku

IndSpec == InitInd /\ [][IndNext]_vars


-----------------------------------------------------------------------------
(* Properties *)

\* get_full_chart_data has just returned in thread t
Returned(t) == pc[t] = "g_ret"

\* get_btc_ohlc_with_cache has just returned in thread t
StoreReturned(t) == pc[t] = "o_ret"

LogFns(t) == {hist[t].log[i].fn : i \in DOMAIN hist[t].log}

Contacted(t) == \E i \in DOMAIN hist[t].log : hist[t].log[i].net

\* Both full-fetch sources gave nothing (and so did the incremental fetch, if
\* it was tried): the call's last source answer is Kraken's failure
AllSourcesFailed(t) ==
    /\ hist[t].log # <<>>
    /\ hist[t].log[Len(hist[t].log)] = [fn |-> "kraken", res |-> "none", net |-> TRUE]

\* C1: a get_full_chart_data call that finds the memory entry older than the
\* freshness window attempts a rebuild before it returns, and when that
\* rebuild gives a dataset the memory entry holds it and is fresh.
C1_StaleEntryIsRebuilt ==
    \A t \in Threads :
        Returned(t) /\ hist[t].stale =>
            /\ hist[t].rebuilt
            /\ loc[t].full_ret # None =>
                  /\ MEMORY_CACHE.full_data = loc[t].full_ret
                  /\ WithinWindow(now, MEMORY_CACHE.last_update)

C3_NoDataIsExplicit ==
    \A t \in Threads :
        /\ Returned(t) /\ hist[t].empty_start /\ ~hist[t].src_ok
              => loc[t].full_ret = None
        /\ pc[t] = "done" /\ hist[t].empty_start /\ ~hist[t].src_ok
              => loc[t].resp = "error"
        /\ Returned(t) /\ loc[t].full_ret # None
              => IsCompleteDataset(loc[t].full_ret)

C3_Witness ==
    \E t \in Threads :
        /\ pc[t] = "done" /\ hist[t].empty_start /\ ~hist[t].src_ok
        /\ loc[t].caller = "fallback"
        /\ AllSourcesFailed(t)

\* C4: when the memory tier held a dataset as the call began, or the durable
\* tier did and its read did not fail, get_full_chart_data returns a dataset,
\* never None, and it is the one the memory tier holds.
C4_KnownGoodIsServed ==
    \A t \in Threads :
        Returned(t) /\ hist[t].had /\ ~hist[t].read_fault =>
            /\ loc[t].full_ret # None
            /\ loc[t].full_ret = MEMORY_CACHE.full_data

C4_Witness ==
    \E t \in Threads :
        /\ Returned(t) /\ hist[t].had /\ hist[t].stale
        /\ ~SERVERLESS_MODE /\ full_file = None

\* C5: every get_full_chart_data call returns, a dataset or None, whatever
\* other requests run beside it, given that every thread that can go on does.
C5_EveryCallReturns ==
    \A t \in Threads : (pc[t] = "g_tier1") ~> Returned(t)

\* Two calls are under way at once and one of them waits for the lock
C5_Witness ==
    /\ pc[1] \in {"g_tier1", "l_tier1", "l_lock", "s_lock"}
    /\ CACHE_LOCK = 2
    /\ loc[1].caller = "get" /\ loc[2].caller = "get"

C8_RecentSnapshotIsServed ==
    \A t \in Threads :
        /\ StoreReturned(t) /\ hist[t].recent /\ ~hist[t].snap_fault =>
              /\ loc[t].ohlc = btc_file
              /\ ~Contacted(t)
              /\ ~hist[t].saved
        /\ hist[t].req_start # 0 =>
              hist[t].req_start * DAY_SECONDS > loc[t].last_ts

\* C9: when every time of B is a time of S with another candle, the merge has
\* the length of S, the times of S, B's (last) candle at every time of B and
\* S's candle at every other time.
OverwritesOnly(S, B) ==
    \A i \in DOMAIN B : \E j \in DOMAIN S : S[j].time = B[i].time /\ S[j] # B[i]

LastAt(B, t) == B[MaxOf({i \in DOMAIN B : B[i].time = t})]

C9_OverwriteKeepsLength ==
    m.stage \in {"once", "twice", "self"} /\ OverwritesOnly(m.S, m.B) =>
        /\ Len(m.R1) = Len(m.S)
        /\ \A j \in DOMAIN m.S :
              m.R1[j] = IF m.S[j].time \in Times(m.B) THEN LastAt(m.B, m.S[j].time)
                        ELSE m.S[j]

C9_Witness ==
    /\ m.stage = "once" /\ OverwritesOnly(m.S, m.B)
    /\ Len(m.B) = 2 /\ m.B[1].time > m.B[2].time
    /\ Len(m.S) = 3

\* C10: merging a series with itself gives the series, and merging a batch a
\* second time changes nothing, for every snapshot, the empty one too.
C10_MergeIdempotent ==
    /\ m.stage \in {"twice", "self"} => m.R2 = m.R1
    /\ m.stage = "self" => m.RS = m.S

\* C11: whatever the snapshot and the batch, the empty ones and a batch out of
\* order or with repeated timestamps included, the merged series ascends
\* strictly by time, without a repeated time.
C11_MergeSortedUnique ==
    m.stage \in {"once", "twice", "self"} => IsCandleSeries(m.R1)

\* C12: build_full_data_cache gives None for every series shorter than 50
\* candles, the empty one too, and for every series of 50 candles or more a
\* dataset with all 29 named fields, never one with fields missing.
C12_BuildAllOrNothing ==
    m.stage \in {"built", "response"} =>
        IF Len(m.ohlc) < MIN_CANDLES THEN m.data = None
        ELSE /\ m.data # None
             /\ DOMAIN m.data = DatasetFields
             /\ Cardinality(DOMAIN m.data) = 29

C12_Witness ==
    /\ m.stage = "built"
    /\ Len(m.ohlc) = MIN_CANDLES
    /\ m.data # None
    /\ m.ohlc[Len(m.ohlc)].close # FlatPrice

\* C13: for a series of n >= 50 candles every field of the dataset, raw
\* column or indicator, has n cells, and so has each of the five Ichimoku
\* series computed for the response.
C13_AllFieldsAligned ==
    /\ m.stage \in {"built", "response"} /\ m.data # None =>
          \A k \in DOMAIN m.data : Len(m.data[k]) = Len(m.ohlc)
    /\ m.stage = "response" =>
          /\ DOMAIN m.ichimoku =
                {"tenkan_sen", "kijun_sen", "senkou_a", "senkou_b", "chikou_span"}
          /\ \A k \in DOMAIN m.ichimoku : Len(m.ichimoku[k]) = Len(m.ohlc)

C13_Witness ==
    /\ m.stage = "response"
    /\ Len(m.ohlc) >= SENKOU_B
    /\ m.ichimoku.senkou_a[Len(m.ohlc)] # NONE
    /\ m.data.sma_200[Len(m.ohlc)] = NONE
    /\ m.data.macd_signal[Len(m.ohlc)] # NONE
    /\ m.data.adx[Len(m.ohlc)] # NONE

\* The period-taking indicators, and the number of lists each gives
PeriodTaking ==
    [sma |-> 1, ema |-> 1, rsi |-> 1, macd |-> 3, bollinger |-> 3, atr |-> 1,
     stochastic |-> 2, mfi |-> 1, cci |-> 1, williams_r |-> 1, adx |-> 3,
     ichimoku |-> 5]

\* C14: on a series of n candles, n less than the period p (slow for MACD,
\* senkou B for Ichimoku), every period-taking indicator gives its lists, each
\* of n cells, every cell None.
C14_ShortInputAllUndefined ==
    m.stage \in DOMAIN PeriodTaking /\ Len(m.candles) < m.p =>
        /\ Cardinality(DOMAIN m.out) = PeriodTaking[m.stage]
        /\ \A k \in DOMAIN m.out :
              /\ Len(m.out[k]) = Len(m.candles)
              /\ \A i \in 1..Len(m.out[k]) : m.out[k][i] = NONE

C14_Witness ==
    /\ m.stage = "ichimoku"
    /\ Len(m.candles) = 2 /\ m.p = 3 /\ m.q = 1 /\ m.r = 1

\* The losses of a price series: the size of each fall, 0 where it does not fall
Losses(prices) ==
    [k \in 1..(Len(prices) - 1) |->
        IF Less(prices[k + 1], prices[k]) THEN Sub(prices[k], prices[k + 1]) ELSE Num(0)]

\* C15: every defined cell of calculate_rsi is a number from 0 to 100, and it
\* is exactly 100 wherever the Wilder-smoothed average loss is 0.
C15_RsiBounded ==
    m.stage = "rsi" =>
        LET out == m.out[1]
            avg_loss == wilder_average(Losses(closes), m.p)
        IN  \A i \in 1..Len(out) :
                out[i] # NONE =>
                    /\ IsNumber(out[i])
                    /\ ~Less(out[i], Num(0)) /\ ~Less(Num(100), out[i])
                    /\ avg_loss[i - 1] = Num(0) => out[i] = Num(100)

C15_Witness ==
    /\ m.stage = "rsi"
    /\ \E i, j \in 1..Len(m.out[1]) :
          /\ m.out[1][i] = Num(100)
          /\ m.out[1][j] # NONE
          /\ Less(Num(0), m.out[1][j]) /\ Less(m.out[1][j], Num(100))

\* C16: with period 1, calculate_atr gives the true-range series of every
\* non-empty input; for every period p and n >= p candles, the cells before
\* index p - 1 are None and the cell at index p - 1 is the simple mean of the
\* first p true ranges.
C16_AtrSeededAtPeriod ==
    m.stage = "atr" /\ Len(m.candles) >= m.p =>
        LET out == m.out[1]
            tr == true_range(highs, lows, closes)
        IN  /\ Len(out) = Len(m.candles)
            /\ m.p = 1 => \A i \in 1..Len(out) : out[i] = tr[i]
            /\ \A i \in 1..(m.p - 1) : out[i] = NONE
            /\ out[m.p] = Div(SumRange(tr, 1, m.p), Num(m.p))

\* C17: with n >= senkou_b candles, Senkou Span A is the tenkan/kijun mean
\* moved forward by kijun cells: the cell at j is the mean of tenkan_sen and
\* kijun_sen at j - kijun where both are defined, and None at every other j.
C17_SenkouAShifted ==
    m.stage = "ichimoku" /\ Len(m.candles) >= m.p =>
        LET kijun == m.r
            tenkan_sen == m.out.tenkan_sen
            kijun_sen == m.out.kijun_sen
        IN  /\ Len(m.out.senkou_a) = Len(m.candles)
            /\ \A j \in 1..Len(m.candles) :
                  m.out.senkou_a[j] =
                      IF j - kijun >= 1 /\ tenkan_sen[j - kijun] # NONE
                                       /\ kijun_sen[j - kijun] # NONE
                      THEN Div(Add(tenkan_sen[j - kijun], kijun_sen[j - kijun]), Num(2))
                      ELSE NONE

\* C18: for every non-empty input, a single candle included, calculate_obv is
\* the running sum that starts at volume[0] and adds the volume on a higher
\* close, subtracts it on a lower close, and stays on an equal close.
C18_ObvRunningSum ==
    m.stage = "obv" /\ Len(m.candles) >= 1 =>
        LET obv == m.out[1]
        IN  /\ Len(obv) = Len(m.candles)
            /\ obv[1] = volumes[1]
            /\ \A i \in 2..Len(obv) :
                  obv[i] = IF Less(closes[i - 1], closes[i]) THEN Add(obv[i - 1], volumes[i])
                           ELSE IF Less(closes[i], closes[i - 1]) THEN Sub(obv[i - 1], volumes[i])
                           ELSE obv[i - 1]

\* C19: %D is the d-period simple moving average of %K: where the d cells of
\* %K ending at i are all defined, %D[i] is their mean, and %D is undefined
\* (None, or NaN, which is served as None) at every other index.
C19_StochDIsSmaOfK ==
    m.stage = "stochastic" =>
        LET k_values == m.out[1]
            d_values == NanToNone(m.out[2])
            d == m.q
        IN  /\ Len(d_values) = Len(k_values)
            /\ \A i \in 1..Len(k_values) :
                  d_values[i] =
                      IF i >= d /\ \A j \in (i - d + 1)..i : k_values[j] # NONE
                      THEN Div(SumRange(k_values, i - d + 1, i), Num(d))
                      ELSE NONE

\* C20: a reader that holds CACHE_LOCK finds in MEMORY_CACHE a full_data and
\* a last_update that one and the same write (of save_full_data_cache or of
\* load_full_data_cache) put there, never the full_data of one write with the
\* last_update of another.
C20_ReaderSeesWholeEntry ==
    \A t \in Threads :
        pc[t] \in {"g_check", "l_check"} => written.data = written.stamp

\* A reader holds the lock and finds the entry that the other thread, whose
\* request is still under way, has just written
C20_Witness ==
    \E t, u \in Threads :
        /\ pc[t] = "g_check"
        /\ pc[u] = "s_file"
        /\ written.stamp >= 1
        /\ MEMORY_CACHE.full_data # None

\* The positions inside a with CACHE_LOCK: block
InsideLock == {"g_check", "l_check", "l_write1", "l_write2", "s_write1", "s_write2"}

\* The positions at which a source fetch, an indicator build or a read or
\* write of a file is the next step
SlowSteps == {"l_file", "o_load", "o_lastts", "o_incr", "o_polygon", "o_kraken",
              "o_ret", "s_file"}

\* C21: CACHE_LOCK is held only inside the blocks that read or replace the
\* memory entry: no thread holds it while a fetch, a build or a file read or
\* write is its next step, so a thread that asks for the lock while another
\* one rebuilds finds the lock free or held by a thread inside such a block.
C21_LockOnlyAroundMemory ==
    /\ CACHE_LOCK # 0 => pc[CACHE_LOCK] \in InsideLock
    /\ \A t \in Threads : pc[t] \in SlowSteps => CACHE_LOCK # t

\* A request holds the lock for its tier-1 check while the other thread is
\* about to fetch from a source
C21_Witness ==
    \E t, u \in Threads :
        /\ pc[u] \in {"o_polygon", "o_kraken", "o_incr"}
        /\ pc[t] = "g_check"
        /\ CACHE_LOCK = t

\* get_full_chart_data is about to return a dataset it built in tier 3
RebuildReturned(t) ==
    /\ pc[t] = "g_ret"
    /\ hist[t].rebuilt
    /\ loc[t].full_ret # None

\* The memory entry holds the returned dataset, and outside serverless mode
\* the parquet file holds it too unless a file operation failed
WrittenBack(t) ==
    /\ MEMORY_CACHE.full_data = sanitize_for_json(loc[t].full_ret)
    /\ MEMORY_CACHE.last_update = loc[t].current_time
    /\ ~SERVERLESS_MODE => (full_file = ToParquet(loc[t].full_ret) \/ faults > 0)

\* C22: when get_full_chart_data returns a dataset it rebuilt, the memory
\* entry already holds that dataset and, outside serverless mode, the write
\* of the parquet file has been attempted; the store has attempted to save
\* the series it fetched or merged before the build: the snapshot is that
\* series unless the mode is serverless or the write failed.
C22_WriteBackBeforeReturn ==
    \A t \in Threads :
        RebuildReturned(t) =>
            /\ WrittenBack(t)
            /\ hist[t].src_ok =>
                  /\ hist[t].saved => btc_file = loc[t].ohlc
                  /\ ~hist[t].saved => (SERVERLESS_MODE \/ faults > 0)

\* A rebuild returns with both tiers and the snapshot written
C22_Witness ==
    \E t \in Threads :
        /\ RebuildReturned(t)
        /\ ~SERVERLESS_MODE
        /\ hist[t].src_ok
        /\ faults = 0
        /\ btc_file = loc[t].ohlc
        /\ full_file = ToParquet(loc[t].full_ret)

\* C22 as stated: outside serverless mode the store has persisted the
\* fetched or merged series before the build, whatever happened to the write
C22_SeriesPersisted ==
    \A t \in Threads :
        (RebuildReturned(t) /\ ~SERVERLESS_MODE /\ hist[t].src_ok) =>
            btc_file = loc[t].ohlc

\* What thread t does in a step in which a read or a write of a file fails
AfterFailure(t) ==
    CASE pc[t] = "l_file" ->
            \* the dataset file cannot be read: on to tier 3
            pc'[t] = "o_load"
      [] pc[t] = "o_load" ->
            \* the snapshot cannot be read: no cache, full fetch
            loc'[t].cached = <<>> /\ pc'[t] = "o_polygon"
      [] pc[t] = "o_lastts" ->
            pc'[t] = "o_polygon"
      [] pc[t] \in {"o_incr", "o_polygon", "o_kraken"} ->
            \* the snapshot cannot be written: the new series is returned
            /\ pc'[t] = "o_ret"
            /\ loc'[t].ohlc # <<>>
            /\ hist'[t].src_ok
            /\ btc_file' = btc_file
      [] pc[t] = "s_file" ->
            \* the dataset file cannot be written: memory holds the new
            \* dataset and the caller gets it
            /\ MEMORY_CACHE'.full_data = sanitize_for_json(loc[t].data)
            /\ IF loc[t].caller = "get"
               THEN pc'[t] = "g_ret" /\ loc'[t].full_ret = loc[t].data
               ELSE pc'[t] = "done" /\ loc'[t].resp = "ok"
      [] OTHER -> FALSE

\* C23: a failed read or write of a file never stops a call: after a failed
\* write the memory entry is replaced all the same and the call returns the
\* new dataset or series, after a failed read the call goes on to the next
\* tier as if the file were absent.
C23_DurableFailureNotFatal ==
    [][\A t \in Threads : (faults' > faults /\ pc'[t] # pc[t]) => AfterFailure(t)]_vars

\* The write of the dataset file failed, and get_full_chart_data returns the
\* dataset it built, which memory holds
C23_Witness ==
    \E t \in Threads :
        /\ RebuildReturned(t)
        /\ faults = 1
        /\ hist[t].saved
        /\ ~hist[t].read_fault
        /\ ~hist[t].snap_fault
        /\ full_file # ToParquet(loc[t].full_ret)
        /\ MEMORY_CACHE.full_data = sanitize_for_json(loc[t].full_ret)

\* C24: whenever no thread is inside a block that replaces the memory entry,
\* last_update of an entry that holds a dataset is the time at which that
\* dataset was built.
C24_StampIsBuildTime ==
    (MEMORY_CACHE.full_data # None /\ CACHE_LOCK = 0) =>
        MEMORY_CACHE.last_update = written.built

\* C25: the adx list of calculate_adx is None at every index below
\* 2 * period - 2 (indexes from 0), the indexes at which fewer than period
\* DX values are defined.
C25_AdxNeedsDefinedDx ==
    m.stage = "adx" =>
        \A i \in 1..Len(m.out[1]) : i - 1 < 2 * m.p - 2 => m.out[1][i] = NONE

\* The store is about to return the series a full fetch gave it
FullFetchReturned(t) ==
    /\ pc[t] = "o_ret"
    /\ hist[t].log # <<>>
    /\ hist[t].log[Len(hist[t].log)].fn \in {"polygon", "kraken"}
    /\ hist[t].log[Len(hist[t].log)].res = "data"

C27_FileMatchesMemory ==
    (/\ \A t \in Threads : pc[t] = "idle"
     /\ written.ops >= 2
     /\ full_file # None) =>
        sanitize_for_json(full_file) = MEMORY_CACHE.full_data

\* What a call of the store that has just ended did, in serverless mode: it
\* loaded nothing, asked for the full history first and never for an
\* increment, and returns [] if no source answered
ServerlessCall(h, l) ==
    /\ l.cached = <<>>
    /\ h.log # <<>>
    /\ h.log[1].fn = "polygon"
    /\ \A i \in DOMAIN h.log : h.log[i].fn # "incremental"
    /\ ~h.saved
    /\ ~h.src_ok => l.ohlc = <<>>

\* C28: in serverless mode no step writes the snapshot file, and every call
\* of get_btc_ohlc_with_cache finds no cache, goes to the full fetch, however
\* recently an earlier call succeeded, and returns [] when both sources fail.
C28_ServerlessAlwaysFetches ==
    [][SERVERLESS_MODE =>
          /\ btc_file' = btc_file
          /\ \A t \in Threads :
                pc'[t] = "o_ret" => ServerlessCall(hist'[t], loc'[t])]_vars

\* In serverless mode a call that follows a successful one within 5 minutes
\* has asked both sources, got nothing and returns []
C28_Witness ==
    \E t \in Threads :
        /\ SERVERLESS_MODE
        /\ pc[t] = "o_ret"
        /\ RecentlyUpdated(loc[t].o_time)
        /\ Len(hist[t].log) = 2
        /\ ~hist[t].src_ok
        /\ loc[t].ohlc = <<>>


-----------------------------------------------------------------------------
(* SimpleCache and cache_response.  In these specifications m is the state  *)
(* of API_CACHE, the clock and what the last operation returned; the rest   *)
(* of the process is at rest.                                               *)

MaxCacheOps == 4
MaxCacheTicks == 3

\* Seconds by which the clock moves between two operations
CacheSteps == {1, 30, 300}

\* CACHE_TTL, the entries the two decorated endpoints use
CACHE_TTL == [bitcoin_chart |-> 300, bitcoin_price |-> 30]

\* @cache_response(cache_key, ttl_key) of the two endpoints
Routes == [bitcoin_chart_data |-> "bitcoin_chart", bitcoin_price |-> "bitcoin_price"]

\* What the wrapped function returns: the error payload of the chart
\* endpoint, or a dict of data
ErrorPayload == [error |-> "No data available", ohlc |-> <<>>, indicators |-> <<>>]
EndpointResults(key) ==
    IF key = "bitcoin_chart_data" THEN {ErrorPayload, [ohlc |-> "candles", indicators |-> "lists"]}
    ELSE {[price |-> 0], [price |-> FlatPrice]}

Payloads == UNION {EndpointResults(key) : key \in DOMAIN Routes}

\* dict assignment and del
Put(f, key, v) == [k \in DOMAIN f \cup {key} |-> IF k = key THEN v ELSE f[k]]
Drop(f, key) == [k \in DOMAIN f \ {key} |-> f[k]]

\* time.time() - self._timestamps.get(key, 0) < ttl_seconds
SimpleCache_freshInclusive(c, key, ttl_seconds, at) ==
    at - (IF key \in DOMAIN c.timestamps THEN c.timestamps[key] ELSE 0) <= ttl_seconds

SimpleCache_fresh(c, key, ttl_seconds, at) ==
    at - (IF key \in DOMAIN c.timestamps THEN c.timestamps[key] ELSE 0) < ttl_seconds

\* SimpleCache.get: the value it returns and the two dicts it leaves
SimpleCache_get(c, key, ttl_seconds, at) ==
    IF key \in DOMAIN c.cache
    THEN IF SimpleCache_fresh(c, key, ttl_seconds, at)
         THEN [value |-> c.cache[key], cache |-> c.cache, timestamps |-> c.timestamps]
         ELSE [value |-> None, cache |-> Drop(c.cache, key),
               timestamps |-> Drop(c.timestamps, key)]
    ELSE [value |-> None, cache |-> c.cache, timestamps |-> c.timestamps]

\* SimpleCache.set
SimpleCache_set(c, key, value, at) ==
    [cache |-> Put(c.cache, key, value), timestamps |-> Put(c.timestamps, key, at)]

\* SimpleCache.clear
SimpleCache_clear == [cache |-> <<>>, timestamps |-> <<>>]

\* API_CACHE = SimpleCache().  last[key] is the most recent set of the key
\* that no clear followed (gone: a get has found it expired since), calls
\* counts the calls of the wrapped functions, err_at is the time at which
\* the chart endpoint last returned, if it returned the error payload
InitCache ==
    /\ AtRest
    /\ m = [stage |-> "cache", cache |-> <<>>, timestamps |-> <<>>, time |-> StartTime,
            ticks |-> 0, ops |-> 0, ret |-> [op |-> "none"],
            last |-> [k \in DOMAIN Routes |-> None], calls |-> 0, err_at |-> 0]

Operated(c, ret, last) ==
    /\ m.ops < MaxCacheOps
    /\ m' = [m EXCEPT !.cache = c.cache, !.timestamps = c.timestamps,
                       !.ops = @ + 1, !.ret = ret, !.last = last]
    /\ UNCHANGED process

CacheGet ==
    \E key \in DOMAIN Routes, ttl \in {CACHE_TTL[k] : k \in DOMAIN CACHE_TTL} :
        Operated(SimpleCache_get(m, key, ttl, m.time),
                 [op |-> "get", key |-> key, ttl |-> ttl,
                  value |-> SimpleCache_get(m, key, ttl, m.time).value],
                 IF key \in DOMAIN m.cache /\ key \notin DOMAIN SimpleCache_get(m, key, ttl, m.time).cache
                 THEN [m.last EXCEPT ![key] = [@ EXCEPT !.gone = TRUE]]
                 ELSE m.last)

CacheSet ==
    \E key \in DOMAIN Routes, value \in Payloads :
        Operated(SimpleCache_set(m, key, value, m.time),
                 [op |-> "set", key |-> key],
                 [m.last EXCEPT ![key] = [at |-> m.time, value |-> value, gone |-> FALSE]])

CacheClear ==
    Operated(SimpleCache_clear, [op |-> "clear"], [k \in DOMAIN Routes |-> None])

CacheTick ==
    /\ m.ticks < MaxCacheTicks
    /\ \E d \in CacheSteps : m' = [m EXCEPT !.time = @ + d, !.ticks = @ + 1]
    /\ UNCHANGED process

CacheNext == CacheGet \/ CacheSet \/ CacheClear \/ CacheTick

CacheSpec == InitCache /\ [][CacheNext]_vars

\* An operation of the cache has just run
CacheStep == m'.ops = m.ops + 1

\* The most recent set of the key is less than ttl seconds old and no clear
\* followed it
SetIsRecent(key, ttl) ==
    /\ m.last[key] # None
    /\ m.time - m.last[key].at < ttl

\* C29: a get returns the value of the most recent set of the key if that
\* set is less than ttl seconds old, no clear followed it and no get has
\* found the key expired since; otherwise it returns None, and a key found
\* expired is in neither dict afterwards; the two dicts always have the same
\* keys.
C29_GetReturnsLiveSet ==
    [][(CacheStep /\ m'.ret.op = "get") =>
          /\ IF SetIsRecent(m'.ret.key, m'.ret.ttl) /\ ~m.last[m'.ret.key].gone
             THEN m'.ret.value = m.last[m'.ret.key].value
             ELSE /\ m'.ret.value = None
                  /\ m'.ret.key \notin DOMAIN m'.cache
          /\ DOMAIN m'.cache = DOMAIN m'.timestamps]_vars

\* A get has found a key expired and removed it
C29_Witness ==
    /\ m.stage = "cache"
    /\ m.ret.op = "get"
    /\ m.ret.value = None
    /\ m.last[m.ret.key] # None
    /\ m.last[m.ret.key].gone
    /\ m.ret.key \notin DOMAIN m.cache

\* C29 as stated: a get returns the value of the most recent set of the key
\* if and only if that set is less than ttl seconds old and no clear followed
\* it.
C29_GetReturnsRecentSet ==
    [][(CacheStep /\ m'.ret.op = "get") =>
          IF SetIsRecent(m'.ret.key, m'.ret.ttl)
          THEN m'.ret.value = m.last[m'.ret.key].value
          ELSE m'.ret.value = None]_vars


-----------------------------------------------------------------------------
(* cache_response: the decorated endpoints, requests handled one at a time  *)

\* data = result.get_json() if the result has one, else the result itself:
\* the endpoints return dicts, which are stored as they are
data_ofDroppingErrors(result) == IF result = ErrorPayload THEN None ELSE result

data_of(result) == result

\* A request is answered: the two dicts of API_CACHE as the handler leaves
\* them, the payload and the X-Cache header of the response, and what the
\* wrapped function returned if it was called
Answered(key, c, payload, x_cache, result) ==
    /\ m.ops < MaxCacheOps
    /\ m' = [m EXCEPT
                !.cache = c.cache, !.timestamps = c.timestamps, !.ops = @ + 1,
                !.ret = [op |-> "request", key |-> key, value |-> payload,
                         x_cache |-> x_cache],
                !.calls = IF x_cache = "MISS" THEN @ + 1 ELSE @,
                !.err_at = IF key = "bitcoin_chart_data" /\ x_cache = "MISS"
                           THEN (IF result = ErrorPayload THEN m.time ELSE 0)
                           ELSE @]
    /\ UNCHANGED process

\* decorated_function of cache_response(cache_key, ttl_key): a cached value
\* that is not None is the answer (X-Cache: HIT); else the wrapped function
\* is called, and what it returns is stored and answered (X-Cache: MISS)
cache_response(cache_key, got) ==
    IF got.value # None
    THEN Answered(cache_key, got, got.value, "HIT", None)
    ELSE \E result \in EndpointResults(cache_key) :
            Answered(cache_key, SimpleCache_set(got, cache_key, data_of(result), m.time),
                     data_of(result), "MISS", result)

Request ==
    \E cache_key \in DOMAIN Routes :
        cache_response(cache_key,
                       SimpleCache_get(m, cache_key, CACHE_TTL[Routes[cache_key]], m.time))

ResponseNext == Request \/ CacheTick

ResponseSpec == InitCache /\ [][ResponseNext]_vars

\* The chart endpoint returned the error payload less than 300 seconds ago
ErrorIsRecent ==
    /\ m.err_at # 0
    /\ m.time - m.err_at < CACHE_TTL.bitcoin_chart

\* C30: the wrapped function is called only when the cache has no value for
\* the key, and what it returns is stored, the error payload included: a
\* chart request less than 300 seconds after the chart endpoint returned the
\* error payload is answered with that payload from API_CACHE, and the
\* endpoint is not called.
C30_ErrorPayloadIsCached ==
    [][(CacheStep /\ m'.ret.op = "request") =>
          /\ m'.calls # m.calls =>
                /\ m'.ret.x_cache = "MISS"
                /\ SimpleCache_get(m, m'.ret.key, CACHE_TTL[Routes[m'.ret.key]], m.time).value = None
                /\ m'.cache[m'.ret.key] = m'.ret.value
          /\ (m'.ret.key = "bitcoin_chart_data" /\ ErrorIsRecent) =>
                /\ m'.ret.x_cache = "HIT"
                /\ m'.ret.value = ErrorPayload
                /\ m'.calls = m.calls]_vars

\* A chart request that came after the error was returned, and before its
\* 300 seconds were over, has been answered from the cache with the error
C30_Witness ==
    /\ m.stage = "cache"
    /\ m.ret.op = "request"
    /\ m.ret.key = "bitcoin_chart_data"
    /\ m.ret.x_cache = "HIT"
    /\ m.ret.value = ErrorPayload
    /\ m.err_at # 0
    /\ m.time > m.err_at
    /\ m.calls = 1

====
